---- MODULE Spec2Model ----
(***************************************************************************)
(* Model of EnhancedNASAWeather (src/nasa_enhanced.py): historical-data    *)
(* retrieval with its simulated fallback, the simulated-data generator,    *)
(* the similar-day search, the weighted average, predict_weather and       *)
(* get_specific_day_data, and two request threads of app.py sharing the    *)
(* generator of module random.                                             *)
(*                                                                         *)
(* Conventions.                                                            *)
(*  - A datetime is the number of days since 2020-01-01 (the time of day   *)
(*    plays no part in the modelled code).  A formatted date ('%Y%m%d' or  *)
(*    '%Y-%m-%d') is the triple <<year, month, day>>.                      *)
(*  - Weather values are in tenths of a unit (25.3 degrees is 253).  A     *)
(*    Python float that need not be a whole number of tenths is an exact   *)
(*    rational [n |-> numerator, d |-> denominator > 0].                   *)
(*  - The process-wide generator of module random is a 16-bit linear       *)
(*    congruential generator; every draw advances it by one step.          *)
(***************************************************************************)
EXTENDS Integers, Sequences, FiniteSets, TLC

VARIABLES
    pc,           \* position of the running call
    caller,       \* "predict" | "hist": which operation called get_historical_data
    lat, lon,     \* coordinates of the call (whole degrees)
    days,         \* horizon of predict_weather
    now,          \* datetime.now(), a day number
    salt,         \* the process's string-hash salt (PYTHONHASHSEED)
    rng,          \* state of the process-wide random generator
    start_date,   \* get_historical_data / _generate_simulated_data argument
    end_date,     \* get_historical_data / _generate_simulated_data argument
    attempt,      \* index in parameter_sets of the next HTTP attempt
    requests,     \* the parameter sets requested so far, in order
    nfailed,      \* attempts that failed so far
    last_resp,    \* kind of the last response: "none" | "error" | "non200" | "empty" | "ok"
    outcome,      \* "none" | "parsed" | "simulated" | "raised"
    hist,         \* historical_data: what get_historical_data returned
    last_date,    \* predict_weather's last_date
    i,            \* predict_weather's loop index
    predictions,  \* predict_weather's result list
    path,         \* "none" | "main" | "empty" | "except": which return of predict_weather
    steplog,      \* per main-loop iteration: day of year, branch taken, similar days found
    similar,      \* similar_days of the last main-loop iteration
    current_date, \* _generate_simulated_data's loop variable
    records,      \* _generate_simulated_data's list under construction
    series,       \* the lists returned by the completed _generate_simulated_data calls
    draws,        \* draws made by other code between two generator calls
    wa_in,        \* arguments of a direct _weighted_average call
    wa_out,       \* its result
    dd_in,        \* a pair of day-of-year values
    dd_out,       \* the day differences computed from it
    peer,         \* a second request thread inside _generate_simulated_data
    target_date,  \* get_specific_day_data's argument, as written
    specific      \* get_specific_day_data: "none" | "running" | <<what it returned>>

vars == <<pc, caller, lat, lon, days, now, salt, rng, start_date, end_date,
          attempt, requests, nfailed, last_resp, outcome, hist, last_date, i,
          predictions, path, steplog, similar, current_date, records, series,
          draws, wa_in, wa_out, dd_in, dd_out, peer, target_date, specific>>

-----------------------------------------------------------------------------
(* Bounds of the model *)

MaxDays == 2
MaxCalls == 2
MaxDraws == 2
MaxSpan == 3
MaxCand == 2

MaxConcSpan == 1

-----------------------------------------------------------------------------
(* Program constants *)

HistoryDays == 1095
Window == 10
MinSimilar == 5
SeedModulus == 10000
NumParameterSets == 4

-----------------------------------------------------------------------------
(* Calendar: datetime, timetuple().tm_yday, strftime, strptime *)

Abs(x) == IF x < 0 THEN -x ELSE x

Min(a, b) == IF a <= b THEN a ELSE b

Max(a, b) == IF a >= b THEN a ELSE b

IsLeap(y) == (y % 4 = 0 /\ y % 100 # 0) \/ y % 400 = 0

DaysInYear(y) == IF IsLeap(y) THEN 366 ELSE 365

DaysInMonth(y, m) ==
    IF m = 2 THEN (IF IsLeap(y) THEN 29 ELSE 28)
    ELSE IF m \in {4, 6, 9, 11} THEN 30 ELSE 31

\* day number 0
Epoch == <<2020, 1, 1>>

EpochYear == Epoch[1]

RECURSIVE YearDoy(_, _)
YearDoy(y, n) ==
    IF n < DaysInYear(y) THEN <<y, n + 1>>
    ELSE YearDoy(y + 1, n - DaysInYear(y))

RECURSIVE MonthDay(_, _, _)
MonthDay(y, m, rem) ==
    IF rem <= DaysInMonth(y, m) THEN <<m, rem>>
    ELSE MonthDay(y, m + 1, rem - DaysInMonth(y, m))

\* date.timetuple().tm_yday
TmYday(n) == YearDoy(EpochYear, n)[2]

\* date.strftime('%Y%m%d') and date.strftime('%Y-%m-%d')
Strftime(n) ==
    LET yd == YearDoy(EpochYear, n)
        md == MonthDay(yd[1], 1, yd[2])
    IN  <<yd[1], md[1], md[2]>>

RECURSIVE DaysBeforeYear(_)
DaysBeforeYear(y) ==
    IF y <= EpochYear THEN 0 ELSE DaysBeforeYear(y - 1) + DaysInYear(y - 1)

RECURSIVE DaysBeforeMonth(_, _)
DaysBeforeMonth(y, m) ==
    IF m <= 1 THEN 0 ELSE DaysBeforeMonth(y, m - 1) + DaysInMonth(y, m - 1)

\* whether datetime.strptime(s, '%Y%m%d') succeeds (it raises ValueError otherwise)
StrptimeOk(s) ==
    /\ s[1] >= EpochYear
    /\ s[2] \in 1..12
    /\ s[3] >= 1
    /\ s[3] <= DaysInMonth(s[1], s[2])

\* datetime.strptime(s, '%Y%m%d')
Strptime(s) == DaysBeforeYear(s[1]) + DaysBeforeMonth(s[1], s[2]) + s[3] - 1

-----------------------------------------------------------------------------
(* Exact rationals standing for Python floats *)

RECURSIVE GCD(_, _)
GCD(a, b) == IF b = 0 THEN a ELSE GCD(b, a % b)

LCM(a, b) == (a \div GCD(a, b)) * b

Rat(x) == [n |-> x, d |-> 1]

RNorm(r) ==
    LET g == GCD(Abs(r.n), r.d)
    IN  [n |-> r.n \div g, d |-> r.d \div g]

RAdd(a, b) ==
    LET l == LCM(a.d, b.d)
    IN  RNorm([n |-> a.n * (l \div a.d) + b.n * (l \div b.d), d |-> l])

RMulInt(a, k) == RNorm([n |-> a.n * k, d |-> a.d])

\* a / b for b > 0
RDiv(a, b) ==
    LET l == LCM(a.d, b.d)
    IN  RNorm([n |-> a.n * (l \div a.d), d |-> b.n * (l \div b.d)])

RLe(a, b) == a.n * b.d <= b.n * a.d

RMax(a, b) == IF RLe(b, a) THEN a ELSE b

RMin(a, b) == IF RLe(a, b) THEN a ELSE b

\* round(x, 1) of a value in tenths: the nearest whole number of tenths, ties to even
Round1(r) ==
    LET q == r.n \div r.d
        rem == r.n - q * r.d
    IN  IF 2 * rem < r.d THEN q
        ELSE IF 2 * rem > r.d THEN q + 1
        ELSE IF q % 2 = 0 THEN q ELSE q + 1

-----------------------------------------------------------------------------
(* Module random: the process-wide generator and its distributions *)

RngNext(s) == (s * 25173 + 13849) % 65536

\* hash(f"{lat}_{lon}"): a salted string hash, fixed within one process
Hash(la, lo, sa) == ((la * 7919 + lo * 104729 + sa * 15485863) % 1000003) - 500000

\* abs(hash(f"{lat}_{lon}")) % 10000
SeedValue(la, lo, sa) == Abs(Hash(la, lo, sa)) % SeedModulus

\* random.seed(seed_value): the generator state after seeding
SeedState(seed) == (seed * 6007 + 1) % 65536

\* the generator left as it is
ReseedMissing(s, la, lo, sa) == s

\* random.seed(abs(hash(f"{lat}_{lon}")) % 10000), from generator state s
Reseed(s, la, lo, sa) == SeedState(SeedValue(la, lo, sa))

ZTable == <<-3, -2, -1, 0, 0, 1, 2, 3>>

\* random.gauss(mu, sigma) read off generator state s
Gauss(mu, sigma, s) == mu + sigma * ZTable[((s \div 256) % Len(ZTable)) + 1]

\* random.random() in thousandths, 0..999
Random(s) == (s \div 64) % 1000

\* random.uniform(a, b) in tenths
Uniform(a, b, s) == a + ((s \div 16) % (b - a + 1))

ExpoTable == <<0, 1, 3, 5, 10, 25>>

\* random.expovariate(2) in tenths: never negative
Expovariate(s) == ExpoTable[((s \div 256) % Len(ExpoTable)) + 1]

WeibullTable == <<0, 5, 15, 27, 40, 80>>

\* random.weibullvariate(3, 1.8) in tenths: never negative
Weibullvariate(s) == WeibullTable[((s \div 256) % Len(WeibullTable)) + 1]

\* 1000 * sin(2*pi*t/365) for t in 0..364 (Bhaskara's rational approximation)
Sin1000(t) ==
    IF 2 * t <= 365
    THEN LET p == 2 * t * (365 - 2 * t)
         IN  (16000 * p) \div (5 * 133225 - 4 * p)
    ELSE LET u == 2 * t - 365
             p == u * (365 - u)
         IN  -((16000 * p) \div (5 * 133225 - 4 * p))

\* 10 * math.sin(2 * math.pi * (day_of_year - anchor) / 365) in tenths
Seasonal(doy, anchor) == Sin1000((doy - anchor) % 365) \div 10

\* 25 - (abs(lat) - 30) * 0.7 in tenths
BaseTemp(la) == 250 - (Abs(la) - 30) * 7

SeasonalTemp(la, doy) ==
    IF la < 0 THEN Seasonal(doy, 265) ELSE Seasonal(doy, 80)

-----------------------------------------------------------------------------
(* _climate_based_prediction *)

\* _climate_based_prediction(lat, lon, day_of_year) from generator state s:
\* the four values (floats, here whole tenths) and the generator state left
ClimateBasedPrediction(la, lo, doy, s) ==
    LET s1 == RngNext(s)
        temp == BaseTemp(la) + SeasonalTemp(la, doy) + Gauss(0, 30, s1)
        precip_prob == IF Abs(la) < 30 THEN 400 ELSE 300
        s2 == RngNext(s1)
        wet == Random(s2) < precip_prob
        s3 == IF wet THEN RngNext(s2) ELSE s2
        precipitation == IF wet THEN Expovariate(s3) ELSE 0
        s4 == RngNext(s3)
        wind_speed == Weibullvariate(s4)
        s5 == RngNext(s4)
        humidity == Uniform(400, 800, s5)
    IN  [temp |-> temp, precipitation |-> precipitation,
         wind_speed |-> wind_speed, humidity |-> humidity, rng |-> s5]

-----------------------------------------------------------------------------
(* _generate_simulated_data *)

\* one iteration of the while loop for current_date = cur, from generator
\* state s: the record appended and the generator state left
GenRecord(la, cur, s) ==
    LET day_of_year == TmYday(cur)
        base_temp == BaseTemp(la)
        seasonal_temp == SeasonalTemp(la, day_of_year)
        s1 == RngNext(s)
        temp_variation == Gauss(0, 40, s1)
        max_temp == base_temp + seasonal_temp + temp_variation + 60
        min_temp == base_temp + seasonal_temp + temp_variation - 60
        mean_temp == [n |-> max_temp + min_temp, d |-> 2]
        precip_prob ==
            IF Abs(la) < 30
            THEN 400 + ((200 * Sin1000((day_of_year - 200) % 365)) \div 1000)
            ELSE 300 + ((300 * Sin1000((day_of_year - 170) % 365)) \div 1000)
        s2 == RngNext(s1)
        wet == Random(s2) < precip_prob
        s3 == IF wet THEN RngNext(s2) ELSE s2
        precipitation == IF wet THEN Max(0, Gauss(20, 30, s3)) ELSE 0
        base_wind == 30 + Abs(la)
        s4 == RngNext(s3)
        wind_speed == Max(0, Gauss(base_wind, 20, s4))
        base_humidity == 600 + (30 - Abs(la)) * 5
        s5 == RngNext(s4)
        humidity == Max(300, Min(950, Gauss(base_humidity, 150, s5)))
    IN  [rec |-> [date |-> cur,
                  date_str |-> Strftime(cur),
                  temperature |-> Round1(mean_temp),
                  max_temperature |-> Round1(Rat(max_temp)),
                  min_temperature |-> Round1(Rat(min_temp)),
                  precipitation |-> Round1(Rat(precipitation)),
                  wind_speed |-> Round1(Rat(wind_speed)),
                  humidity |-> Round1(Rat(humidity))],
         rng |-> s5]

\* the loop condition: while current_date <= end
GenContinueStrict(cur, end) == cur < end

GenContinue(cur, end) == cur <= end

\* up to fuel iterations of the while loop from current_date = cur and
\* generator state s, stopping at the first failed loop condition.  The
\* iterations run in order, each from the generator state the one before left;
\* they are evaluated as two halves to keep the evaluation shallow.
RECURSIVE GenUpTo(_, _, _, _, _)
GenUpTo(la, cur, end, s, fuel) ==
    IF fuel <= 1
    THEN IF GenContinue(cur, end)
         THEN LET g == GenRecord(la, cur, s)
              IN  [records |-> <<g.rec>>, rng |-> g.rng, cur |-> cur + 1,
                   stopped |-> FALSE]
         ELSE [records |-> <<>>, rng |-> s, cur |-> cur, stopped |-> TRUE]
    ELSE LET a == GenUpTo(la, cur, end, s, fuel \div 2)
         IN  IF a.stopped THEN a
             ELSE LET b == GenUpTo(la, a.cur, end, a.rng, fuel - (fuel \div 2))
                  IN  [records |-> a.records \o b.records, rng |-> b.rng,
                       cur |-> b.cur, stopped |-> b.stopped]

\* the whole while loop from current_date = cur: it runs until the loop
\* condition fails, which is within end - cur + 2 iterations
GenLoop(la, cur, end, s) == GenUpTo(la, cur, end, s, Max(1, end - cur + 2))

\* _generate_simulated_data(lat, lon, start_date, end_date) with both dates
\* parseable, from generator state s
GenerateSimulatedData(la, lo, sd, ed, s, sa) ==
    GenLoop(la, Strptime(sd), Strptime(ed), Reseed(s, la, lo, sa))

-----------------------------------------------------------------------------
(* Historical records *)

\* a field holding JSON null (Python None)
NoneValue == -1000000

\* day.get(parameter, 0)
Get(day, parameter) == IF parameter \in DOMAIN day THEN day[parameter] ELSE 0

-----------------------------------------------------------------------------
(* _find_similar_days *)

FindDayDiffNoAbs(record_day, target_day_of_year) ==
    Min(record_day - target_day_of_year,
        365 - Abs(record_day - target_day_of_year))

\* day_diff of _find_similar_days
FindDayDiff(record_day, target_day_of_year) ==
    Min(Abs(record_day - target_day_of_year),
        365 - Abs(record_day - target_day_of_year))

FindSimilarDaysNarrow(historical_data, target_day_of_year, la) ==
    SelectSeq(historical_data,
              LAMBDA record:
                  FindDayDiff(TmYday(record.date), target_day_of_year) < Window)

\* _find_similar_days(historical_data, target_day_of_year, lat): the records
\* appended, in the order of historical_data
FindSimilarDays(historical_data, target_day_of_year, la) ==
    SelectSeq(historical_data,
              LAMBDA record:
                  FindDayDiff(TmYday(record.date), target_day_of_year) <= Window)

-----------------------------------------------------------------------------
(* _weighted_average *)

\* day_diff of _weighted_average
AvgDayDiff(record_day, target_day_of_year) ==
    Min(Abs(record_day - target_day_of_year),
        365 - Abs(record_day - target_day_of_year))

WeightUniform(day_diff) == [n |-> 1, d |-> 1]

\* weight = 1.0 / (1 + day_diff)
Weight(day_diff) == [n |-> 1, d |-> 1 + day_diff]

\* the for loop skipping the records that lack the field
RECURSIVE WALoopSkipping(_, _, _, _, _)
WALoopSkipping(similar_days, parameter, target_day_of_year, k, acc) ==
    IF k > Len(similar_days) \/ acc.raised THEN acc
    ELSE LET day == similar_days[k]
             day_diff == AvgDayDiff(TmYday(day.date), target_day_of_year)
             weight == Weight(day_diff)
             value == Get(day, parameter)
             divs == Append(acc.divs, Rat(1 + day_diff))
         IN  WALoopSkipping(similar_days, parameter, target_day_of_year, k + 1,
                 IF parameter \notin DOMAIN day THEN acc
                 ELSE IF value = NoneValue
                 THEN [acc EXCEPT !.divs = divs, !.raised = TRUE]
                 ELSE [total_weight |-> RAdd(acc.total_weight, weight),
                       weighted_sum |-> RAdd(acc.weighted_sum, RMulInt(weight, value)),
                       divs |-> divs,
                       raised |-> FALSE])

\* the for loop from index k on.  acc: total_weight, weighted_sum, the
\* divisors of the divisions executed so far, and whether day.get(...) * weight
\* raised TypeError (the field holds None)
RECURSIVE WALoop(_, _, _, _, _)
WALoop(similar_days, parameter, target_day_of_year, k, acc) ==
    IF k > Len(similar_days) \/ acc.raised THEN acc
    ELSE LET day == similar_days[k]
             record_day == TmYday(day.date)
             day_diff == AvgDayDiff(record_day, target_day_of_year)
             weight == Weight(day_diff)
             value == Get(day, parameter)
             divs == Append(acc.divs, Rat(1 + day_diff))
         IN  WALoop(similar_days, parameter, target_day_of_year, k + 1,
                 IF value = NoneValue
                 THEN [acc EXCEPT !.divs = divs, !.raised = TRUE]
                 ELSE [total_weight |-> RAdd(acc.total_weight, weight),
                       weighted_sum |-> RAdd(acc.weighted_sum, RMulInt(weight, value)),
                       divs |-> divs,
                       raised |-> FALSE])

WAStart == [total_weight |-> Rat(0), weighted_sum |-> Rat(0),
            divs |-> <<>>, raised |-> FALSE]

\* not a number: the value of a division by zero
NaN == [n |-> 0, d |-> 0]

\* _weighted_average without its two guards
WeightedAverageUnguarded(similar_days, parameter, target_day_of_year) ==
    LET acc == WALoop(similar_days, parameter, target_day_of_year, 1, WAStart)
    IN  IF acc.raised
        THEN [val |-> Rat(0), raised |-> TRUE, divs |-> acc.divs]
        ELSE [val |-> IF acc.total_weight.n = 0 THEN NaN
                      ELSE RDiv(acc.weighted_sum, acc.total_weight),
              raised |-> FALSE,
              divs |-> Append(acc.divs, acc.total_weight)]

\* _weighted_average(similar_days, parameter, target_day_of_year): the value
\* returned, whether it raised, and the divisors of the divisions it executed
WeightedAverage(similar_days, parameter, target_day_of_year) ==
    IF similar_days = <<>>
    THEN [val |-> Rat(0), raised |-> FALSE, divs |-> <<>>]
    ELSE LET acc == WALoop(similar_days, parameter, target_day_of_year, 1, WAStart)
         IN  IF acc.raised
             THEN [val |-> Rat(0), raised |-> TRUE, divs |-> acc.divs]
             ELSE IF acc.total_weight.n > 0
             THEN [val |-> RDiv(acc.weighted_sum, acc.total_weight),
                   raised |-> FALSE,
                   divs |-> Append(acc.divs, acc.total_weight)]
             ELSE [val |-> Rat(0), raised |-> FALSE, divs |-> acc.divs]

-----------------------------------------------------------------------------
(* _parse_nasa_data.  A response body is [params, offs, pat]: the NASA       *)
(* parameters it holds, the dates it lists (day offsets from today, in the   *)
(* order listed) and which values it carries.                                *)

\* parameters[nasa_param][date_str] for the k-th listed date
BodyValue(pat, nasa_param, k) ==
    IF pat = "fill" THEN -9990
    ELSE IF pat = "null" /\ nasa_param \in {"PRECTOTCORR", "PRECTOT"} THEN NoneValue
    ELSE IF pat = "null1" /\ k = 1 /\ nasa_param = "PRECTOTCORR" THEN NoneValue
    ELSE CASE nasa_param = "T2M" -> 200 + 7 * k
           [] nasa_param = "T2M_MAX" -> 250 + 7 * k
           [] nasa_param = "T2M_MIN" -> 150 + 7 * k
           [] nasa_param = "PRECTOTCORR" -> (3 * k) % 8
           [] nasa_param = "PRECTOT" -> 1
           [] nasa_param = "WS2M" -> 20 + k
           [] OTHER -> 550 + 10 * k

\* param_mapping, read right to left: the NASA parameters that set a field,
\* the one later in the mapping first (it overwrites the earlier one)
ParamSources(std_param) ==
    CASE std_param = "temperature" -> <<"T2M">>
      [] std_param = "max_temperature" -> <<"T2M_MAX">>
      [] std_param = "min_temperature" -> <<"T2M_MIN">>
      [] std_param = "precipitation" -> <<"PRECTOT", "PRECTOTCORR">>
      [] std_param = "wind_speed" -> <<"WS2M">>
      [] OTHER -> <<"RH2M">>

StdParams == {"temperature", "max_temperature", "min_temperature",
              "precipitation", "wind_speed", "humidity"}

\* nasa_param in parameters and date_str in parameters[nasa_param], for the
\* k-th listed date: a "partial" body has no humidity for every other date
HasValue(body, nasa_param, k) ==
    /\ nasa_param \in body.params
    /\ ~(body.pat = "partial" /\ nasa_param = "RH2M" /\ k % 2 = 1)

\* the NASA parameter whose value the field ends up with
FieldSource(body, std_param, k) ==
    LET src == ParamSources(std_param)
    IN  IF HasValue(body, src[1], k) THEN src[1] ELSE src[Len(src)]

\* the record built for the k-th listed date
ParseRecord(body, today, k) ==
    LET present == {f \in StdParams :
                       \E j \in DOMAIN ParamSources(f) :
                           HasValue(body, ParamSources(f)[j], k)}
        date == today + body.offs[k]
    IN  [f \in {"date", "date_str"} \cup present |->
            IF f = "date" THEN date
            ELSE IF f = "date_str" THEN Strftime(date)
            ELSE BodyValue(body.pat, FieldSource(body, f, k), k)]

\* _parse_nasa_data(data)
ParseNasaData(body, today) ==
    IF body.params = {} THEN <<>>
    ELSE IF body.offs = <<>> THEN <<>>
    ELSE SelectSeq([k \in DOMAIN body.offs |-> ParseRecord(body, today, k)],
                   LAMBDA record : "temperature" \in DOMAIN record)

FullParams == {"T2M", "T2M_MAX", "T2M_MIN", "PRECTOTCORR", "WS2M", "RH2M"}

SmallParams == {"T2M", "PRECTOT", "WS2M"}

\* the JSON bodies a 200 response may carry
Bodies ==
    { [params |-> FullParams, offs |-> <<-6, -5, -4, -3, -2, -1, 0>>, pat |-> "warm"],
      [params |-> FullParams, offs |-> <<-20, -9, -4, -3, -2, -1, 0>>, pat |-> "warm"],
      [params |-> FullParams, offs |-> <<-4, -3, -2, -1, 0>>, pat |-> "warm"],
      [params |-> SmallParams, offs |-> <<0, -1, -2, -3, -4, -5>>, pat |-> "fill"],
      [params |-> FullParams, offs |-> <<-6, -5, -4, -3, -2, -1, 0>>, pat |-> "fill"],
      [params |-> FullParams \cup {"PRECTOT"}, offs |-> <<-5, -4, -3, -2, -1, 0>>, pat |-> "null"],
      [params |-> {"PRECTOT", "WS2M"}, offs |-> <<-2, -1, 0>>, pat |-> "warm"],
      [params |-> FullParams, offs |-> <<-354, -5, -4, -3, -2, -1>>, pat |-> "null1"],
      [params |-> FullParams, offs |-> <<-6, -5, -4, -3, -2, -1, 0>>, pat |-> "partial"],
      [params |-> FullParams, offs |-> <<>>, pat |-> "warm"],
      [params |-> {}, offs |-> <<>>, pat |-> "warm"] }

-----------------------------------------------------------------------------
(* _generate_basic_predictions *)

\* one iteration of the for loop: the generator state left and the
\* prediction appended for index k
BasicStep(la, lo, current, k, s) ==
    LET future_date == current + k + 1
        day_of_year == TmYday(future_date)
        c == ClimateBasedPrediction(la, lo, day_of_year, s)
    IN  [rng |-> c.rng,
         prediction |->
             [date |-> Strftime(future_date),
              temperature |-> Round1(Rat(c.temp)),
              precipitation |-> Round1(Rat(c.precipitation)),
              wind_speed |-> Round1(Rat(c.wind_speed)),
              max_temperature |-> Round1(Rat(c.temp + 40)),
              min_temperature |-> Round1(Rat(c.temp - 40)),
              humidity |-> Round1(Rat(c.humidity))]]

\* the iterations for the indices k .. n-1 of range(days), in order, each
\* from the generator state the one before left; they are evaluated as two
\* halves to keep the evaluation shallow
RECURSIVE BasicLoop(_, _, _, _, _, _)
BasicLoop(la, lo, current, k, n, s) ==
    IF k >= n THEN [predictions |-> <<>>, rng |-> s]
    ELSE IF n - k = 1
    THEN LET b == BasicStep(la, lo, current, k, s)
         IN  [predictions |-> <<b.prediction>>, rng |-> b.rng]
    ELSE LET mid == k + ((n - k) \div 2)
             a == BasicLoop(la, lo, current, k, mid, s)
             b == BasicLoop(la, lo, current, mid, n, a.rng)
         IN  [predictions |-> a.predictions \o b.predictions, rng |-> b.rng]

\* _generate_basic_predictions(lat, lon, days) with datetime.now() = today
GenerateBasicPredictions(la, lo, n, today, s) ==
    BasicLoop(la, lo, today, 0, n, s)

-----------------------------------------------------------------------------
(* Inputs and initial values *)

Lats == {-35, -1, 45}

Lons == {36}

Salts == {0, 1}

RngStates == {1, 31337}

callVars == <<caller, lat, lon, days, start_date, end_date>>

fetchVars == <<attempt, requests, nfailed, last_resp, outcome, hist>>

predVars == <<last_date, i, predictions, path, steplog, similar>>

genVars == <<current_date, records, series, draws>>

pureVars == <<wa_in, wa_out, dd_in, dd_out>>

NoCall ==
    /\ caller = "none" /\ lat = 0 /\ lon = 0 /\ days = 0
    /\ start_date = Epoch /\ end_date = Epoch

NoFetch ==
    /\ attempt = 1 /\ requests = <<>> /\ nfailed = 0
    /\ last_resp = "none" /\ outcome = "none" /\ hist = <<>>

NoPredict ==
    /\ last_date = 0 /\ i = 0 /\ predictions = <<>>
    /\ path = "none" /\ steplog = <<>> /\ similar = <<>>

NoGen == current_date = 0 /\ records = <<>> /\ series = <<>> /\ draws = 0

NoPure ==
    /\ wa_in = [similar_days |-> <<>>, parameter |-> "temperature", target |-> 1]
    /\ wa_out = <<>>
    /\ dd_in = <<1, 1>>
    /\ dd_out = <<>>

sideVars == <<peer, target_date, specific>>

\* a request thread that is not inside _generate_simulated_data
PeerIdle ==
    [pc |-> "idle", lat |-> 0, lon |-> 0, current_date |-> 0,
     records |-> <<>>, series |-> <<>>]

NoPeer == peer = PeerIdle

NoSpecific == target_date = <<>> /\ specific = "none"

-----------------------------------------------------------------------------
(* The day difference on its own: every pair of day-of-year values *)

InitDist ==
    /\ pc = "idle" /\ now = 0 /\ salt = 0 /\ rng = 0
    /\ NoCall /\ NoFetch /\ NoPredict /\ NoGen /\ NoPeer /\ NoSpecific
    /\ wa_in = [similar_days |-> <<>>, parameter |-> "temperature", target |-> 1]
    /\ wa_out = <<>>
    /\ dd_in \in (1..366) \X (1..366)
    /\ dd_out = <<>>

\* the day_diff computations of _find_similar_days and _weighted_average for
\* record_day = dd_in[1], target_day_of_year = dd_in[2], and for the two swapped
ComputeDayDiff ==
    /\ pc = "idle"
    /\ dd_out' = <<[find |-> FindDayDiff(dd_in[1], dd_in[2]),
                    find_swapped |-> FindDayDiff(dd_in[2], dd_in[1]),
                    avg |-> AvgDayDiff(dd_in[1], dd_in[2]),
                    avg_swapped |-> AvgDayDiff(dd_in[2], dd_in[1])]>>
    /\ pc' = "done"
    /\ UNCHANGED <<now, salt, rng, callVars, fetchVars, predVars, genVars,
                   wa_in, wa_out, dd_in, sideVars>>

NextDist == ComputeDayDiff

SpecDist == InitDist /\ [][NextDist]_vars

-----------------------------------------------------------------------------
(* _weighted_average on its own: candidate lists of up to MaxCand records *)

\* record dates with day of year 360, 3, 10 and 100
WADates == {Strptime(<<2023, 12, 26>>), Strptime(<<2024, 1, 3>>),
            Strptime(<<2024, 1, 10>>), Strptime(<<2023, 4, 10>>)}

WARecords ==
    {[date |-> d, temperature |-> v] : d \in WADates, v \in {-50, 100}}
    \cup
    {[date |-> d, temperature |-> 100, humidity |-> h] :
        d \in WADates, h \in {600, NoneValue}}

WACandidates == UNION {[1..n -> WARecords] : n \in 0..MaxCand}

InitWA ==
    /\ pc = "idle" /\ now = 0 /\ salt = 0 /\ rng = 0
    /\ NoCall /\ NoFetch /\ NoPredict /\ NoGen /\ NoPeer /\ NoSpecific
    /\ wa_in \in {[similar_days |-> sd, parameter |-> p, target |-> t] :
                     sd \in WACandidates,
                     p \in {"temperature", "humidity"},
                     t \in {1, 5}}
    /\ wa_out = <<>>
    /\ dd_in = <<1, 1>>
    /\ dd_out = <<>>

\* a call _weighted_average(similar_days, parameter, target_day_of_year)
WACall ==
    /\ pc = "idle"
    /\ wa_out' = <<WeightedAverage(wa_in.similar_days, wa_in.parameter, wa_in.target)>>
    /\ pc' = "done"
    /\ UNCHANGED <<now, salt, rng, callVars, fetchVars, predVars, genVars,
                   wa_in, dd_in, dd_out, sideVars>>

NextWA == WACall

SpecWA == InitWA /\ [][NextWA]_vars

-----------------------------------------------------------------------------
(* _generate_simulated_data on its own: calls with the same arguments, with  *)
(* draws by other users of the generator between them                       *)

GenBases == {Strptime(<<2023, 12, 30>>), Strptime(<<2024, 2, 27>>)}

InitGen ==
    /\ pc = "idle" /\ now = 0
    /\ salt \in Salts
    /\ rng \in RngStates
    /\ caller = "gen"
    /\ lat \in Lats
    /\ lon \in Lons
    /\ days = 0
    /\ \E base \in GenBases :
          /\ start_date \in {Strftime(base + k) : k \in 0..MaxSpan}
          /\ end_date \in {Strftime(base + k) : k \in 0..MaxSpan}
    /\ NoFetch /\ NoPredict /\ NoGen /\ NoPure /\ NoPeer /\ NoSpecific

\* lines 124-132: the dates parsed, the list emptied, the generator reseeded;
\* when the loop makes no iteration the empty list is returned at once
GenCall ==
    /\ pc = "idle"
    /\ Len(series) < MaxCalls
    /\ rng' = Reseed(rng, lat, lon, salt)
    /\ current_date' = Strptime(start_date)
    /\ records' = <<>>
    /\ IF GenContinue(Strptime(start_date), Strptime(end_date))
       THEN pc' = "gen" /\ series' = series
       ELSE pc' = "idle" /\ series' = Append(series, <<>>)
    /\ UNCHANGED <<now, salt, callVars, fetchVars, predVars, draws, pureVars, sideVars>>

\* one iteration of the while loop; the list is returned when the loop ends
GenStep ==
    /\ pc = "gen"
    /\ LET g == GenRecord(lat, current_date, rng)
       IN  /\ rng' = g.rng
           /\ records' = Append(records, g.rec)
           /\ current_date' = current_date + 1
           /\ IF GenContinue(current_date + 1, Strptime(end_date))
              THEN pc' = "gen" /\ series' = series
              ELSE pc' = "idle" /\ series' = Append(series, Append(records, g.rec))
    /\ UNCHANGED <<now, salt, callVars, fetchVars, predVars, draws, pureVars, sideVars>>

\* any other random.* call of the process, between two generator calls
OtherDraw ==
    /\ pc = "idle"
    /\ draws < MaxDraws
    /\ rng' = RngNext(rng)
    /\ draws' = draws + 1
    /\ UNCHANGED <<pc, now, salt, callVars, fetchVars, predVars,
                   current_date, records, series, pureVars, sideVars>>

NextGen == GenCall \/ GenStep \/ OtherDraw

SpecGen == InitGen /\ [][NextGen]_vars

-----------------------------------------------------------------------------
(* Two requests served by threads of one process (app.py: one nasa_weather   *)
(* for all requests), both inside _generate_simulated_data for the same date *)
(* range, sharing the generator of module random.  A thread switch is        *)
(* modelled between loop iterations only.                                    *)

InitConc ==
    /\ pc = "idle" /\ now = 0
    /\ salt = 0
    /\ rng \in RngStates
    /\ caller = "gen"
    /\ lat \in Lats
    /\ lon \in Lons
    /\ days = 0
    /\ \E base \in GenBases :
          /\ start_date = Strftime(base)
          /\ end_date \in {Strftime(base + k) : k \in -1..MaxConcSpan}
    /\ peer \in {[PeerIdle EXCEPT !.lat = la, !.lon = lo] : la \in Lats, lo \in Lons}
    /\ NoFetch /\ NoPredict /\ NoGen /\ NoPure /\ NoSpecific

\* the second thread's lines 124-132
PeerCall ==
    /\ peer.pc = "idle"
    /\ Len(peer.series) < MaxCalls
    /\ rng' = Reseed(rng, peer.lat, peer.lon, salt)
    /\ peer' = IF GenContinue(Strptime(start_date), Strptime(end_date))
               THEN [peer EXCEPT !.pc = "gen",
                                 !.current_date = Strptime(start_date),
                                 !.records = <<>>]
               ELSE [peer EXCEPT !.current_date = Strptime(start_date),
                                 !.records = <<>>,
                                 !.series = Append(peer.series, <<>>)]
    /\ UNCHANGED <<pc, now, salt, callVars, fetchVars, predVars, genVars,
                   pureVars, target_date, specific>>

\* one iteration of the second thread's while loop
PeerStep ==
    /\ peer.pc = "gen"
    /\ LET g == GenRecord(peer.lat, peer.current_date, rng)
           recs == Append(peer.records, g.rec)
       IN  /\ rng' = g.rng
           /\ peer' = IF GenContinue(peer.current_date + 1, Strptime(end_date))
                      THEN [peer EXCEPT !.records = recs,
                                        !.current_date = peer.current_date + 1]
                      ELSE [peer EXCEPT !.records = recs,
                                        !.current_date = peer.current_date + 1,
                                        !.pc = "idle",
                                        !.series = Append(peer.series, recs)]
    /\ UNCHANGED <<pc, now, salt, callVars, fetchVars, predVars, genVars,
                   pureVars, target_date, specific>>

NextConc == GenCall \/ GenStep \/ PeerCall \/ PeerStep

SpecConc == InitConc /\ [][NextConc]_vars

-----------------------------------------------------------------------------
(* The service: one call of predict_weather, or of get_historical_data       *)

Todays == {Strptime(<<2024, 2, 27>>), Strptime(<<2024, 12, 30>>)}

\* a date string that strptime rejects
BadDate == <<2025, 2, 30>>

Init ==
    /\ pc = "idle"
    /\ now \in Todays
    /\ salt = 0
    /\ rng \in RngStates
    /\ NoCall /\ NoFetch /\ NoPredict /\ NoGen /\ NoPure /\ NoPeer /\ NoSpecific

\* predict_weather(lat, lon, days) up to its call of get_historical_data
PredictStart ==
    /\ pc = "idle"
    /\ \E la \in Lats, lo \in Lons, n \in -1..MaxDays :
          /\ lat' = la
          /\ lon' = lo
          /\ days' = n
    /\ caller' = "predict"
    /\ end_date' = Strftime(now)
    /\ start_date' = Strftime(now - HistoryDays)
    /\ pc' = "fetch"
    /\ UNCHANGED <<now, salt, rng, fetchVars, predVars, genVars, pureVars, sideVars>>

\* get_historical_data(lat, lon, start_date, end_date) called on its own
HistStart ==
    /\ pc = "idle"
    /\ \E la \in Lats, lo \in Lons :
          /\ lat' = la
          /\ lon' = lo
    /\ start_date' \in {Strftime(now - 1), Strftime(now), BadDate}
    /\ end_date' \in {Strftime(now - 1), Strftime(now), BadDate}
    /\ caller' = "hist"
    /\ days' = 0
    /\ pc' = "fetch"
    /\ UNCHANGED <<now, salt, rng, fetchVars, predVars, genVars, pureVars, sideVars>>

\* for i in range(days): whether the loop is over before iteration k
LoopDoneEarly(k, n) == k >= n - 1

LoopDone(k, n) == k >= n

\* an except handler that keeps the predictions built before the exception
FallbackListMixed(partial, basic) ==
    partial \o SubSeq(basic, Len(partial) + 1, Len(basic))

\* return self._generate_basic_predictions(lat, lon, days): the list returned
\* when partial is the list built so far
FallbackList(partial, basic) == basic

\* get_historical_data has returned h (or raised) with the generator at s:
\* for predict_weather, lines 232-237 and the except clause of lines 277-279
Returned(h, oc, s) ==
    /\ hist' = h
    /\ outcome' = oc
    /\ IF caller = "hist"
       THEN /\ pc' = "done"
            /\ rng' = s
            /\ UNCHANGED <<last_date, i, predictions, path>>
       ELSE IF oc = "raised" \/ h = <<>>
       THEN \E b \in {GenerateBasicPredictions(lat, lon, days, now, s)} :
                /\ predictions' = FallbackList(predictions, b.predictions)
                /\ rng' = b.rng
                /\ pc' = "done"
                /\ path' = IF oc = "raised" THEN "except" ELSE "empty"
                /\ UNCHANGED <<last_date, i>>
       ELSE /\ predictions' = <<>>
            /\ last_date' = h[Len(h)].date
            /\ i' = 0
            /\ rng' = s
            /\ IF LoopDone(0, days)
               THEN pc' = "done" /\ path' = "main"
               ELSE pc' = "loop" /\ path' = path

\* a failed attempt that leaves the loop at the same parameter set
FailedRetrySame(kind) ==
    /\ requests' = Append(requests, attempt)
    /\ nfailed' = nfailed + 1
    /\ last_resp' = kind
    /\ attempt' = attempt
    /\ UNCHANGED <<pc, rng, outcome, hist, last_date, i, predictions, path>>

\* the attempt with parameter_sets[attempt] failed: the for loop goes on
Failed(kind) ==
    /\ requests' = Append(requests, attempt)
    /\ nfailed' = nfailed + 1
    /\ last_resp' = kind
    /\ attempt' = attempt + 1
    /\ UNCHANGED <<pc, rng, outcome, hist, last_date, i, predictions, path>>

ParsedAlwaysOk(parsed_data) == TRUE

\* if parsed_data and len(parsed_data) > 0
ParsedOk(parsed_data) == Len(parsed_data) > 0

\* requests.get, response.json() or _parse_nasa_data raises
AttemptError ==
    /\ pc = "fetch"
    /\ attempt <= NumParameterSets
    /\ Failed("error")
    /\ UNCHANGED <<now, salt, callVars, steplog, similar, genVars, pureVars, sideVars>>

\* the response has a status other than 200
AttemptNon200 ==
    /\ pc = "fetch"
    /\ attempt <= NumParameterSets
    /\ Failed("non200")
    /\ UNCHANGED <<now, salt, callVars, steplog, similar, genVars, pureVars, sideVars>>

\* the response has status 200 and a JSON body
Attempt200 ==
    /\ pc = "fetch"
    /\ attempt <= NumParameterSets
    /\ \E body \in Bodies :
          \E parsed_data \in {ParseNasaData(body, now)} :
              IF ParsedOk(parsed_data)
              THEN /\ requests' = Append(requests, attempt)
                   /\ last_resp' = "ok"
                   /\ UNCHANGED <<attempt, nfailed>>
                   /\ Returned(parsed_data, "parsed", rng)
              ELSE Failed("empty")
    /\ UNCHANGED <<now, salt, callVars, steplog, similar, genVars, pureVars, sideVars>>

\* lines 65-69: the for loop ended without a return, the exception raised is
\* caught and the simulated data are returned (strptime raising inside the
\* except clause leaves get_historical_data)
AllFailed ==
    /\ pc = "fetch"
    /\ attempt > NumParameterSets
    /\ IF StrptimeOk(start_date) /\ StrptimeOk(end_date)
       THEN \E g \in {GenerateSimulatedData(lat, lon, start_date, end_date, rng, salt)} :
               Returned(g.records, "simulated", g.rng)
       ELSE Returned(<<>>, "raised", rng)
    /\ UNCHANGED <<now, salt, callVars, attempt, requests, nfailed, last_resp,
                   steplog, similar, genVars, pureVars, sideVars>>

ClampPrecip(x) == RMax(Rat(0), x)

ClampWind(x) == RMax(Rat(1), x)

ClampHumidityHigh(x) == RMin(Rat(950), x)

\* max(20, min(95, x))
ClampHumidity(x) == RMax(Rat(200), RMin(Rat(950), x))

\* future_date = last_date + timedelta(days=i+1)
FutureDate(last, k) == last + k + 1

\* lines 248-257: the four weighted averages, then the four jitter draws
\* from generator state s; raised when a _weighted_average call raised
WeightedBranch(similar_days, day_of_year, s) ==
    LET wt == WeightedAverage(similar_days, "temperature", day_of_year)
        wp == WeightedAverage(similar_days, "precipitation", day_of_year)
        ww == WeightedAverage(similar_days, "wind_speed", day_of_year)
        wh == WeightedAverage(similar_days, "humidity", day_of_year)
        s1 == RngNext(s)
        s2 == RngNext(s1)
        s3 == RngNext(s2)
        s4 == RngNext(s3)
    IN  IF wt.raised \/ wp.raised \/ ww.raised \/ wh.raised
        THEN [raised |-> TRUE]
        ELSE [raised |-> FALSE,
              temp |-> RAdd(wt.val, Rat(Gauss(0, 15, s1))),
              precip |-> ClampPrecip(RAdd(wp.val, Rat(Gauss(0, 8, s2)))),
              wind |-> ClampWind(RAdd(ww.val, Rat(Gauss(0, 5, s3)))),
              humidity |-> ClampHumidity(RAdd(wh.val, Rat(Gauss(0, 50, s4)))),
              rng |-> s4]

\* line 260: the climate-based values
ClimateBranch(la, lo, day_of_year, s) ==
    LET c == ClimateBasedPrediction(la, lo, day_of_year, s)
    IN  [raised |-> FALSE,
         temp |-> Rat(c.temp),
         precip |-> Rat(c.precipitation),
         wind |-> Rat(c.wind_speed),
         humidity |-> Rat(c.humidity),
         rng |-> c.rng]

\* the prediction with one offset drawn and used for both bounds
PredictionOneOffset(future_date, v) ==
    LET s5 == RngNext(v.rng)
    IN  [date |-> Strftime(future_date),
         temperature |-> Round1(v.temp),
         precipitation |-> Round1(ClampPrecip(v.precip)),
         wind_speed |-> Round1(ClampWind(v.wind)),
         max_temperature |-> Round1(RAdd(v.temp, Rat(Uniform(20, 60, s5)))),
         min_temperature |-> Round1(RAdd(v.temp, Rat(-Uniform(20, 60, s5)))),
         humidity |-> Round1(v.humidity)]

\* lines 262-270: the prediction for future_date from the values v, the two
\* random.uniform(2, 6) drawn after v's draws
Prediction(future_date, v) ==
    LET s5 == RngNext(v.rng)
        s6 == RngNext(s5)
    IN  [date |-> Strftime(future_date),
         temperature |-> Round1(v.temp),
         precipitation |-> Round1(ClampPrecip(v.precip)),
         wind_speed |-> Round1(ClampWind(v.wind)),
         max_temperature |-> Round1(RAdd(v.temp, Rat(Uniform(20, 60, s5)))),
         min_temperature |-> Round1(RAdd(v.temp, Rat(-Uniform(20, 60, s6)))),
         humidity |-> Round1(v.humidity)]

\* one iteration of the for loop of predict_weather (lines 240-272); TypeError
\* from _weighted_average is caught by lines 277-279
PredictStep ==
    /\ pc = "loop"
    /\ \E similar_days \in {FindSimilarDays(hist, TmYday(FutureDate(last_date, i)), lat)} :
          LET future_date == FutureDate(last_date, i)
              day_of_year == TmYday(future_date)
              weighted == Len(similar_days) > MinSimilar
          IN  /\ steplog' = Append(steplog,
                     [day_of_year |-> day_of_year,
                      branch |-> IF weighted THEN "weighted" ELSE "climate",
                      found |-> Len(similar_days)])
              /\ similar' = similar_days
              /\ \E v \in {IF weighted
                           THEN WeightedBranch(similar_days, day_of_year, rng)
                           ELSE ClimateBranch(lat, lon, day_of_year, rng)} :
                    IF v.raised
                    THEN \E b \in {GenerateBasicPredictions(lat, lon, days, now, rng)} :
                            /\ predictions' = FallbackList(predictions, b.predictions)
                            /\ rng' = b.rng
                            /\ pc' = "done"
                            /\ path' = "except"
                            /\ i' = i
                    ELSE /\ predictions' = Append(predictions, Prediction(future_date, v))
                         /\ rng' = RngNext(RngNext(v.rng))
                         /\ i' = i + 1
                         /\ IF LoopDone(i + 1, days)
                            THEN pc' = "done" /\ path' = "main"
                            ELSE pc' = "loop" /\ path' = path
    /\ UNCHANGED <<now, salt, callVars, fetchVars, last_date, genVars, pureVars, sideVars>>

Next ==
    \/ PredictStart
    \/ HistStart
    \/ AttemptError
    \/ AttemptNon200
    \/ Attempt200
    \/ AllFailed
    \/ PredictStep

Spec == Init /\ [][Next]_vars

-----------------------------------------------------------------------------
(* get_specific_day_data.  Its argument is text: the date <<year, month,     *)
(* day>> it names and whether one-digit months and days are written with a   *)
(* leading zero ('2025-01-05') or without ('2025-1-5').                      *)

\* days=365 of the predict_weather call at line 208
SpecificHorizon == 365

Text(date, zeros) == [date |-> date, zeros |-> zeros]

\* datetime.strptime(text, '%Y-%m-%d') accepts the text: %m and %d take one or
\* two digits
StrptimeTextOk(text) == StrptimeOk(text.date)

StrptimeText(text) == Strptime(text.date)

\* the characters of a date text: one-digit fields carry a zero or not
Chars(text) ==
    [date |-> text.date,
     zeros |-> text.zeros \/ (text.date[2] >= 10 /\ text.date[3] >= 10)]

\* pred['date'] == target_date: string equality, pred['date'] being a date
\* written by strftime('%Y-%m-%d'), which writes two digits for month and day
SameText(pred_date, text) == Chars(Text(pred_date, TRUE)) = Chars(text)

\* for pred in predictions: if pred['date'] == target_date: the index of the
\* first prediction whose date string equals the target, 0 if there is none
FindPrediction(preds, text) ==
    LET hits == {k \in DOMAIN preds : SameText(preds[k].date, text)}
    IN  IF hits = {} THEN 0
        ELSE CHOOSE k \in hits : \A j \in hits : k <= j

ReturnNone == [type |-> "None"]

DayLats == {-1}

\* the target dates asked for, by their distance in days from today
DayTargets(today) ==
    {Text(Strftime(today + k), TRUE) : k \in {-1, 0, 1, SpecificHorizon + 1}}
    \cup {Text(Strftime(today + k), FALSE) : k \in {-25, 4}}
    \cup {Text(BadDate, TRUE)}

DayTodays == {Strptime(<<2024, 12, 30>>)}

InitDay ==
    /\ pc = "idle"
    /\ now \in DayTodays
    /\ salt = 0
    /\ rng = 1
    /\ NoCall /\ NoFetch /\ NoPredict /\ NoGen /\ NoPure /\ NoPeer /\ NoSpecific

\* get_specific_day_data(lat, lon, target_date), lines 189-197 and 206-208:
\* up to the call of get_historical_data; a target strptime rejects goes to
\* the except clause, which returns None
SpecificStart ==
    /\ pc = "idle"
    /\ specific = "none"
    /\ \E la \in DayLats, lo \in Lons, text \in DayTargets(now) :
          /\ lat' = la
          /\ lon' = lo
          /\ target_date' = text
          /\ IF ~StrptimeTextOk(text)
             THEN /\ specific' = ReturnNone
                  /\ pc' = "returned"
                  /\ UNCHANGED <<caller, days, start_date, end_date>>
             ELSE IF StrptimeText(text) <= now
             THEN /\ specific' = "running"
                  /\ caller' = "hist"
                  /\ days' = 0
                  /\ start_date' = Strftime(StrptimeText(text))
                  /\ end_date' = Strftime(StrptimeText(text))
                  /\ pc' = "fetch"
             ELSE /\ specific' = "running"
                  /\ caller' = "predict"
                  /\ days' = SpecificHorizon
                  /\ end_date' = Strftime(now)
                  /\ start_date' = Strftime(now - HistoryDays)
                  /\ pc' = "fetch"
    /\ UNCHANGED <<now, salt, rng, fetchVars, predVars, genVars, pureVars, peer>>

\* lines 199-204 after get_historical_data, lines 209-217 after
\* predict_weather; get_historical_data raising ends in the except clause
SpecificReturn ==
    /\ pc = "done"
    /\ specific = "running"
    /\ specific' =
          IF caller = "hist"
          THEN IF outcome # "raised" /\ Len(hist) > 0
               THEN [type |-> "historical", data |-> hist[1], is_prediction |-> FALSE]
               ELSE ReturnNone
          ELSE LET k == FindPrediction(predictions, target_date)
               IN  IF k > 0
                   THEN [type |-> "prediction", data |-> predictions[k],
                         is_prediction |-> TRUE]
                   ELSE ReturnNone
    /\ pc' = "returned"
    /\ UNCHANGED <<now, salt, rng, callVars, fetchVars, predVars, genVars,
                   pureVars, peer, target_date>>

NextSpecificDay ==
    \/ SpecificStart
    \/ AttemptError
    \/ AttemptNon200
    \/ Attempt200
    \/ AllFailed
    \/ PredictStep
    \/ SpecificReturn

SpecDay == InitDay /\ [][NextSpecificDay]_vars

-----------------------------------------------------------------------------
(* Properties *)

\* the calendar day after the formatted date s
NextDay(s) ==
    IF s[3] < DaysInMonth(s[1], s[2]) THEN <<s[1], s[2], s[3] + 1>>
    ELSE IF s[2] < 12 THEN <<s[1], s[2] + 1, 1>>
    ELSE <<s[1] + 1, 1, 1>>

\* formatted date a is before formatted date b
DateBefore(a, b) ==
    \/ a[1] < b[1]
    \/ a[1] = b[1] /\ a[2] < b[2]
    \/ a[1] = b[1] /\ a[2] = b[2] /\ a[3] < b[3]

\* min(|r-d|, 365-|r-d|), written out
CircularDistance(r, d) ==
    LET a == IF r >= d THEN r - d ELSE d - r
    IN  IF a <= 365 - a THEN a ELSE 365 - a

\* the records s are the days from sd to ed, one each, in order
IsDaySeries(s, sd, ed) ==
    IF DateBefore(ed, sd) THEN s = <<>>
    ELSE /\ Len(s) = Strptime(ed) - Strptime(sd) + 1
         /\ s[1].date_str = sd
         /\ s[Len(s)].date_str = ed
         /\ \A k \in 1..(Len(s) - 1) : s[k + 1].date_str = NextDay(s[k].date_str)
         /\ \A k \in 1..Len(s) : Strftime(s[k].date) = s[k].date_str

\* predict_weather has returned
C1_Returned == pc = "done" /\ caller = "predict"

\* each date is the calendar day after the one before, and later than it
C1_Consecutive(preds) ==
    \A k \in 1..(Len(preds) - 1) :
        /\ preds[k + 1].date = NextDay(preds[k].date)
        /\ DateBefore(preds[k].date, preds[k + 1].date)

\* C1 as stated: predict_weather returns exactly horizonDays predictions with
\* consecutive, strictly increasing dates, for every horizonDays.
C1_Original ==
    C1_Returned => Len(predictions) = days /\ C1_Consecutive(predictions)

\* C1: predict_weather returns exactly max(0, horizonDays) predictions, each
\* dated one calendar day after the one before, on every path.
C1_HorizonRecords ==
    C1_Returned =>
        /\ Len(predictions) = (IF days > 0 THEN days ELSE 0)
        /\ C1_Consecutive(predictions)

\* a main-path result whose dates cross a month end
C1_Witness ==
    /\ C1_Returned
    /\ path = "main"
    /\ Len(predictions) >= 2
    /\ predictions[2].date[3] = 1

\* get_historical_data has returned or raised
C2_Finished == outcome # "none"

\* C2 as stated: get_historical_data never raises and returns a non-empty
\* list, for any arguments.
C2_Original == C2_Finished => outcome # "raised" /\ hist # <<>>

\* C2: for parseable dates with start_date not after end_date,
\* get_historical_data does not raise and returns a non-empty list; after four
\* failed attempts that list is the simulated series of [start_date, end_date].
C2_NonEmptyForValidRange ==
    (/\ C2_Finished
     /\ StrptimeOk(start_date)
     /\ StrptimeOk(end_date)
     /\ ~DateBefore(end_date, start_date))
    => /\ outcome \in {"parsed", "simulated"}
       /\ hist # <<>>
       /\ nfailed = NumParameterSets => outcome = "simulated"
       /\ outcome = "simulated" => IsDaySeries(hist, start_date, end_date)

\* every attempt failed, the last by an empty parse, and the one-day simulated
\* series came back
C2_Witness ==
    /\ outcome = "simulated"
    /\ caller = "hist"
    /\ last_resp = "empty"
    /\ start_date = end_date
    /\ Len(hist) = 1

\* C3: every prediction has precipitation >= 0, wind_speed >= 0 and humidity
\* within [20, 95], whatever the historical records hold.
C3_Ranges ==
    \A k \in DOMAIN predictions :
        /\ predictions[k].precipitation >= 0
        /\ predictions[k].wind_speed >= 0
        /\ predictions[k].humidity >= 200
        /\ predictions[k].humidity <= 950

\* a weighted-average prediction from records with negative values, one of
\* them without humidity, the prediction's humidity at the lower clamp
C3_Witness ==
    /\ pc = "done"
    /\ path = "main"
    /\ hist # <<>>
    /\ hist[1].temperature < 0
    /\ "humidity" \notin DOMAIN hist[1]
    /\ \E k \in DOMAIN steplog :
          /\ steplog[k].branch = "weighted"
          /\ k \in DOMAIN predictions
          /\ predictions[k].humidity = 200

C8_Kinds == {"error", "non200", "empty"}

\* what holds of the requests made so far
C8_State ==
    /\ Len(requests) <= NumParameterSets
    /\ \A k \in DOMAIN requests : requests[k] = k
    /\ outcome = "none" => nfailed = Len(requests)
    /\ outcome = "parsed" =>
          /\ last_resp = "ok"
          /\ nfailed = Len(requests) - 1
          /\ hist # <<>>
          /\ hist \in {ParseNasaData(b, now) : b \in Bodies}
    /\ outcome \in {"simulated", "raised"} =>
          /\ nfailed = NumParameterSets
          /\ Len(requests) = NumParameterSets
          /\ last_resp \in C8_Kinds

\* what holds of every step
C8_Step ==
    /\ outcome # "none" => requests' = requests
    /\ Len(requests') <= Len(requests) + 1
    /\ (requests' # requests /\ last_resp' \in C8_Kinds) =>
          /\ outcome' = "none"
          /\ attempt' = attempt + 1
          /\ hist' = hist
    /\ (requests' # requests /\ last_resp' = "ok") => outcome' = "parsed"

\* C8: the parameter sets are requested in list order, one GET each; the first
\* 200 response that parses to a non-empty list is returned and no request
\* follows it; a failed attempt (exception, status other than 200, empty parse)
\* moves on to the next set; the simulated series comes only after four failures.
C8_AttemptsInOrder == [](C8_State) /\ [][C8_Step]_vars

\* the third attempt succeeded after an exception and an empty parse
C8_Witness ==
    /\ outcome = "parsed"
    /\ requests = <<1, 2, 3>>
    /\ nfailed = 2

\* the indices of the historical records within the window of day d
C9_Within(d) ==
    {j \in DOMAIN hist : CircularDistance(TmYday(hist[j].date), d) <= 10}

\* C9: each main-loop iteration takes the weighted-average branch exactly when
\* at least 6 historical records lie within circular distance 10 of its day of
\* year, and _find_similar_days returns exactly those records.
C9_BranchByCount ==
    /\ \A k \in DOMAIN steplog :
          /\ steplog[k].found = Cardinality(C9_Within(steplog[k].day_of_year))
          /\ steplog[k].branch = "weighted" <=> steplog[k].found >= 6
          /\ steplog[k].branch = "climate" <=> steplog[k].found < 6
    /\ steplog # <<>> =>
          \A w \in {C9_Within(steplog[Len(steplog)].day_of_year)} :
              /\ Len(similar) = Cardinality(w)
              /\ \A j \in DOMAIN similar : \E x \in w : similar[j] = hist[x]

\* six records within the window, one of them at distance 10, for the first
\* day and five for the second
C9_Witness ==
    /\ Len(steplog) = 2
    /\ steplog[1].branch = "weighted"
    /\ steplog[1].found = 6
    /\ steplog[2].branch = "climate"
    /\ steplog[2].found = 5

\* C4: the day difference computed by _find_similar_days and by
\* _weighted_average is the same for (r, d) and (d, r), and is at most 182, for
\* all day-of-year values r, d in 1..366.
C4_DayDiffSymmetricBounded ==
    \A k \in DOMAIN dd_out :
        /\ dd_out[k].find = dd_out[k].find_swapped
        /\ dd_out[k].avg = dd_out[k].avg_swapped
        /\ dd_out[k].find <= 182
        /\ dd_out[k].avg <= 182

\* a leap-year day 366 whose difference to the target is the largest possible
C4_Witness ==
    /\ dd_out # <<>>
    /\ dd_in[1] = 366
    /\ dd_out[1].find = 182
    /\ dd_out[1].avg = 182

\* C5: all completed _generate_simulated_data calls with the same arguments
\* returned the same record list, whatever was drawn from the generator before
\* each call.
C5_SameArgsSameSeries ==
    \A a, b \in DOMAIN series : series[a] = series[b]

\* two completed calls with records, the second after other draws
C5_Witness ==
    /\ Len(series) = 2
    /\ draws > 0
    /\ Len(series[2]) >= 2
    /\ pc = "idle"

\* C6: _weighted_average of an empty candidate list returns 0 and executes no
\* division, and no division it ever executes has divisor zero.
C6_NoDivisionByZero ==
    \A k \in DOMAIN wa_out :
        /\ wa_in.similar_days = <<>> =>
              wa_out[k].val = Rat(0) /\ wa_out[k].divs = <<>>
        /\ \A j \in DOMAIN wa_out[k].divs : wa_out[k].divs[j].n # 0

\* the call with an empty candidate list has returned
C6_Witness ==
    /\ wa_out # <<>>
    /\ wa_in.similar_days = <<>>

\* C7: every completed _generate_simulated_data call returned exactly one
\* record per calendar day of [start, end], in ascending order; while the loop
\* runs, current_date stays within [start, end] and the list holds the days
\* before it, so the loop ends after end - start + 1 iterations.
C7_OneRecordPerDay ==
    /\ \A k \in DOMAIN series : IsDaySeries(series[k], start_date, end_date)
    /\ pc = "gen" =>
          /\ current_date >= Strptime(start_date)
          /\ current_date <= Strptime(end_date)
          /\ Len(records) = current_date - Strptime(start_date)

\* a completed call over several days that cross a month end
C7_Witness ==
    /\ Len(series) >= 1
    /\ Len(series[1]) = MaxSpan + 1
    /\ \E k \in DOMAIN series[1] : series[1][k].date_str[3] = 1

RECURSIVE C10_Product(_, _, _)
C10_Product(sd, t, k) ==
    IF k > Len(sd) THEN 1
    ELSE (1 + CircularDistance(TmYday(sd[k].date), t)) * C10_Product(sd, t, k + 1)

\* sum over the candidates from k on of scale / (1 + distance)
RECURSIVE C10_WeightSum(_, _, _, _)
C10_WeightSum(sd, t, scale, k) ==
    IF k > Len(sd) THEN 0
    ELSE (scale \div (1 + CircularDistance(TmYday(sd[k].date), t)))
         + C10_WeightSum(sd, t, scale, k + 1)

\* sum over the candidates from k on of value * scale / (1 + distance)
RECURSIVE C10_ValueSum(_, _, _, _, _)
C10_ValueSum(sd, p, t, scale, k) ==
    IF k > Len(sd) THEN 0
    ELSE Get(sd[k], p) * (scale \div (1 + CircularDistance(TmYday(sd[k].date), t)))
         + C10_ValueSum(sd, p, t, scale, k + 1)

\* the call returned a value: candidates present, none with None in the field
C10_Returned ==
    /\ wa_out # <<>>
    /\ wa_in.similar_days # <<>>
    /\ ~wa_out[1].raised

\* C10: for a non-empty candidate list _weighted_average returns
\* sum(weight * value) / sum(weight) with weight = 1 / (1 + circular distance),
\* and a candidate at smaller distance never has a smaller weight.
C10_WeightedMean ==
    C10_Returned =>
        LET sd == wa_in.similar_days
            t == wa_in.target
            scale == C10_Product(sd, t, 1)
            wsum == C10_WeightSum(sd, t, scale, 1)
            vsum == C10_ValueSum(sd, wa_in.parameter, t, scale, 1)
            val == wa_out[1].val
        IN  /\ val.d > 0
            /\ wsum % val.d = 0
            /\ val.n * (wsum \div val.d) = vsum
            /\ \A a, b \in DOMAIN sd :
                  CircularDistance(TmYday(sd[a].date), t)
                      <= CircularDistance(TmYday(sd[b].date), t)
                  => RLe(Weight(AvgDayDiff(TmYday(sd[b].date), t)),
                         Weight(AvgDayDiff(TmYday(sd[a].date), t)))

\* two candidates at different distances whose mean is not a whole number
C10_Witness ==
    /\ C10_Returned
    /\ Len(wa_in.similar_days) = 2
    /\ TmYday(wa_in.similar_days[1].date) # TmYday(wa_in.similar_days[2].date)
    /\ wa_out[1].val.d > 1

\* predict_weather returned from line 234 (empty history) or line 279 (except)
C11_Fallback == C1_Returned /\ path \in {"empty", "except"}

\* prediction p is what _generate_basic_predictions builds for day k after today
C11_BasicShape(p, k) ==
    /\ p.date = Strftime(now + k)
    /\ p.max_temperature = p.temperature + 40
    /\ p.min_temperature = p.temperature - 40
    /\ p.humidity >= 400 /\ p.humidity <= 800
    /\ p.precipitation >= 0
    /\ p.wind_speed >= 0

\* what holds of a list returned by the fallback
C11_State ==
    C11_Fallback =>
        /\ Len(predictions) = days
        /\ \A k \in DOMAIN predictions : C11_BasicShape(predictions[k], k)

\* the step that catches an exception of the loop returns the list
\* _generate_basic_predictions builds from the generator as it is then
C11_Step ==
    (pc = "loop" /\ pc' = "done" /\ path' = "except") =>
        \E b \in {GenerateBasicPredictions(lat, lon, days, now, rng)} :
            /\ predictions' = b.predictions
            /\ rng' = b.rng

\* C11: when the history is empty or an exception is raised while the
\* predictions are built, predict_weather returns horizonDays predictions, all
\* of them built by _generate_basic_predictions from the climate formula and
\* dated today + 1, today + 2, ...; nothing of the list built before the
\* exception, dated from the last historical date, is in the result.
C11_FallbackOnly == [](C11_State) /\ [][C11_Step]_vars

\* the exception came in the second iteration, after one prediction dated
\* from a last historical date that is not today had been built
C11_Witness ==
    /\ C11_Fallback
    /\ path = "except"
    /\ days = 2
    /\ Len(steplog) = 2
    /\ steplog[1].branch = "climate"
    /\ steplog[2].branch = "weighted"
    /\ last_date = now - 1
    /\ Len(predictions) = 2
    /\ predictions[1].date = Strftime(now + 1)

\* the generator state after n draws from state s
RECURSIVE C12_After(_, _)
C12_After(s, n) == IF n = 0 THEN s ELSE C12_After(RngNext(s), n - 1)

\* in every prediction held, the temperature lies between the two bounds
C12_State ==
    \A k \in DOMAIN predictions :
        /\ predictions[k].min_temperature <= predictions[k].temperature
        /\ predictions[k].temperature <= predictions[k].max_temperature

\* a step of the main loop that appends a prediction: after the n draws of its
\* branch (4 on the weighted branch, 4 or 5 on the climate branch) it draws two
\* offsets, one after the other; each lies within [2, 6], and the bounds are
\* the temperature plus the first and minus the second (all three rounded to
\* one decimal, so to within 0.1)
C12_Step ==
    (pc = "loop" /\ i' = i + 1) =>
        \E n \in {4, 5} :
            LET s5 == C12_After(rng, n + 1)
                s6 == RngNext(s5)
                up == Uniform(20, 60, s5)
                down == Uniform(20, 60, s6)
                p == predictions'[Len(predictions')]
            IN  /\ predictions' = Append(predictions, p)
                /\ rng' = s6
                /\ up >= 20 /\ up <= 60
                /\ down >= 20 /\ down <= 60
                /\ Abs(p.max_temperature - p.temperature - up) <= 1
                /\ Abs(p.temperature - p.min_temperature - down) <= 1

\* C12: every prediction of predict_weather has min_temperature <= temperature
\* <= max_temperature; on the main path the two bounds are the predicted
\* temperature plus and minus two separately drawn offsets, each within [2, 6].
C12_TemperatureBounds == [](C12_State) /\ [][C12_Step]_vars

\* a main-path result whose two offsets differ by more than the rounding
C12_Witness ==
    /\ C1_Returned
    /\ path = "main"
    /\ \E k \in DOMAIN predictions :
          LET p == predictions[k]
          IN  Abs((p.max_temperature - p.temperature)
                  - (p.temperature - p.min_temperature)) > 5

\* the series _generate_simulated_data returns for latitude la, longitude lo
\* and the date range of the state when no other thread touches the generator
C13_Alone(la, lo) ==
    GenerateSimulatedData(la, lo, start_date, end_date, rng, salt).records

\* C13: with two requests interleaved on the shared generator, every completed
\* _generate_simulated_data call of either thread returned the series the same
\* call returns when run alone.
C13_InterleavedSameSeries ==
    /\ \A k \in DOMAIN series : series[k] = C13_Alone(lat, lon)
    /\ \A k \in DOMAIN peer.series : peer.series[k] = C13_Alone(peer.lat, peer.lon)

\* get_specific_day_data has returned
C14_Returned == pc = "returned"

\* the prediction's date is the date the text names, however it is written
C14_SameDate(pred_date, text) == pred_date = text.date

\* the target names a date after today that is among the dates predicted
C14_Predicted ==
    /\ StrptimeTextOk(target_date)
    /\ StrptimeText(target_date) > now
    /\ \E k \in DOMAIN predictions : C14_SameDate(predictions[k].date, target_date)

\* the three kinds of result, each in its case
C14_Cases ==
    /\ specific.type = "historical" <=>
          (StrptimeTextOk(target_date) /\ StrptimeText(target_date) <= now)
    /\ specific.type = "historical" => specific.is_prediction = FALSE
    /\ specific.type = "prediction" <=> C14_Predicted
    /\ specific.type = "prediction" =>
          /\ specific.is_prediction = TRUE
          /\ C14_SameDate(specific.data.date, target_date)
    /\ specific.type \in {"historical", "prediction", "None"}

\* C14: get_specific_day_data returns a 'historical' result (is_prediction
\* False) exactly when the target date is not after now, a 'prediction' result
\* (is_prediction True) for the target date when it is in the future and among
\* the 365 predicted days, and None in every other case.
C14_SpecificDay == C14_Returned => C14_Cases

\* the same for targets written with two-digit months and days
C14_ZeroPadded ==
    (C14_Returned /\ Chars(target_date).zeros) => C14_Cases

\* the fields of a prediction
C15_Fields == {"date", "temperature", "precipitation", "wind_speed",
               "max_temperature", "min_temperature", "humidity"}

\* the least common multiple of 1 + distance over the records from k on
RECURSIVE C15_Scale(_, _, _)
C15_Scale(sd, t, k) ==
    IF k > Len(sd) THEN 1
    ELSE LCM(1 + CircularDistance(TmYday(sd[k].date), t), C15_Scale(sd, t, k + 1))

\* sum over all records from k on of scale / (1 + distance)
RECURSIVE C15_WeightSum(_, _, _, _)
C15_WeightSum(sd, t, scale, k) ==
    IF k > Len(sd) THEN 0
    ELSE (scale \div (1 + CircularDistance(TmYday(sd[k].date), t)))
         + C15_WeightSum(sd, t, scale, k + 1)

\* sum over the records from k on of value * scale / (1 + distance), the value
\* of a record without the field being 0
RECURSIVE C15_ValueSum(_, _, _, _, _)
C15_ValueSum(sd, p, t, scale, k) ==
    IF k > Len(sd) THEN 0
    ELSE (IF p \in DOMAIN sd[k]
          THEN sd[k][p] * (scale \div (1 + CircularDistance(TmYday(sd[k].date), t)))
          ELSE 0)
         + C15_ValueSum(sd, p, t, scale, k + 1)

\* the weighted mean of field p in which a record without the field counts as
\* 0 with its full weight
C15_Mean(sd, p, t) ==
    LET scale == C15_Scale(sd, t, 1)
    IN  RNorm([n |-> C15_ValueSum(sd, p, t, scale, 1),
               d |-> C15_WeightSum(sd, t, scale, 1)])

\* every prediction held carries the seven fields
C15_State == \A k \in DOMAIN predictions : DOMAIN predictions[k] = C15_Fields

\* a step of the weighted-average branch: each field of the prediction
\* appended is that mean over all the similar days, plus the jitter drawn for
\* it, clamped and rounded; with no similar day holding the field the mean is 0
C15_Step ==
    (/\ pc = "loop"
     /\ i' = i + 1
     /\ steplog'[Len(steplog')].branch = "weighted")
    => LET t == steplog'[Len(steplog')].day_of_year
           p == predictions'[Len(predictions')]
           mean(f) == C15_Mean(similar', f, t)
       IN  /\ p.temperature =
                 Round1(RAdd(mean("temperature"), Rat(Gauss(0, 15, C12_After(rng, 1)))))
           /\ p.precipitation =
                 Round1(RMax(Rat(0), RAdd(mean("precipitation"),
                                         Rat(Gauss(0, 8, C12_After(rng, 2))))))
           /\ p.wind_speed =
                 Round1(RMax(Rat(1), RAdd(mean("wind_speed"),
                                         Rat(Gauss(0, 5, C12_After(rng, 3))))))
           /\ p.humidity =
                 Round1(RMax(Rat(200), RMin(Rat(950),
                     RAdd(mean("humidity"), Rat(Gauss(0, 50, C12_After(rng, 4)))))))
           /\ (\A k \in DOMAIN similar' : "humidity" \notin DOMAIN similar'[k])
                 => mean("humidity") = Rat(0)

\* C15: every prediction carries all seven fields, and _weighted_average counts
\* a selected record without the requested field as the value 0 at its full
\* weight, so that the mean is 0 when no selected record has the field.
C15_MissingCountsAsZero == [](C15_State) /\ [][C15_Step]_vars

\* a weighted-average prediction from similar days of which some have
\* humidity and some lack it
C15_Witness ==
    /\ C1_Returned
    /\ path = "main"
    /\ predictions # <<>>
    /\ steplog[Len(steplog)].branch = "weighted"
    /\ \E a, b \in DOMAIN similar :
          /\ "humidity" \in DOMAIN similar[a]
          /\ "humidity" \notin DOMAIN similar[b]

====
